---- MODULE Spec2Model ----
(***************************************************************************)
(* Model of the multi-key request scheduler of                             *)
(* src/src/services/openrouter_api_manager.py (class OpenRouterAPIManager):*)
(* the credential pool with its per-key statistics and cooldowns, the key  *)
(* selector, the request degrader and the bounded retry loop of            *)
(* chat_completion.  Time is the wall clock read by datetime.now(), in     *)
(* whole seconds.  Indices are 0-based as in the source; sequences are     *)
(* 1-based, hence the "+ 1" where api_keys is indexed.                     *)
(***************************************************************************)
EXTENDS Integers, Sequences, FiniteSets, TLC

\* ------------------------------------------------------------------ bounds
MaxKeys == 2        \* largest pool drawn by Init
MaxResets == 1      \* reset_key_status calls made in one behaviour
MaxTokens == 2100   \* largest max_tokens drawn for the degrader
MaxAttempt == 4     \* largest attempt number given to the degrader

\* ------------------------------------------------------- program constants
max_retries == 3
retry_delay == 2
CreditsCooldown == 1800
RateLimitCooldown == 60
OtherCooldown == 30
Cap1 == 2048
Cap2 == 1024
Cap3 == 512

model_fallback_chain ==
    << "qwen/qwen-2.5-72b-instruct",
       "qwen/qwen-2.5-32b-instruct",
       "meta-llama/llama-3.1-8b-instruct:free",
       "mistralai/mixtral-8x7b-instruct" >>

\* ---------------------------------------------------------- value domains
KeyNames == << "sk-or-K1", "sk-or-K2", "sk-or-K3", "sk-or-K4" >>
Callers == {"a", "b"}        \* logical requests
Solo == {"a"}                \* the caller of the runs without overlap

NoTime == -1                 \* Python None for a timestamp
Unbound == ""                \* a local name not assigned yet
NoError == {"None"}          \* last_error = None
NoKwargs == [unset |-> TRUE] \* adj_kwargs not computed yet
NoStatus == [unset |-> TRUE] \* no get_api_status result at hand

\* The text of a transport error, str(error).lower(), as the set of the
\* substrings the classifier looks for that occur in it.
Signals == {"402", "payment required", "credit", "429", "rate limit"}
ErrorTexts == { {}, {"402"}, {"429"}, {"credit", "rate limit"} }

CustomModel == "anthropic/claude-3.5-sonnet"
ChainModels == { model_fallback_chain[i] : i \in 1..Len(model_fallback_chain) }

\* kwargs of a call: the keys "model" and "max_tokens" may each be absent.
KwargsOf(models, budgets) ==
    { [model |-> m, max_tokens |-> t] : m \in models, t \in budgets }
      \cup { [model |-> m] : m \in models }
      \cup { [max_tokens |-> t] : t \in budgets }
      \cup { [messages |-> "m"] }

\* Every kwargs the degrader is applied to.
AllKwargs == KwargsOf(ChainModels \cup {CustomModel}, 0..MaxTokens)
\* The kwargs of the calls of DocumentAIAnalyzer: its qwen_model and its
\* predictive_model, which is not in the chain.
CallKwargs ==
    { [model |-> model_fallback_chain[1], max_tokens |-> 4000],
      [model |-> CustomModel, max_tokens |-> 6000] }

VARIABLES
    api_keys,           \* self.api_keys, fixed at construction
    current_key_index,  \* self.current_key_index
    key_usage_stats,    \* self.key_usage_stats
    key_cooldowns,      \* self.key_cooldowns: a dict, keys present only
    now,                \* datetime.now()
    resets,             \* reset_key_status calls made so far
    pc,                 \* per caller: position in chat_completion
    kwargs,             \* per caller: the caller's kwargs
    attempt,            \* per caller: loop variable of the retry loop
    api_key,            \* per caller: local api_key
    adj_kwargs,         \* per caller: local adj_kwargs
    last_error,         \* per caller: local last_error
    wake_at,            \* per caller: end of the current time.sleep
    dispatches,         \* per caller: transport calls made by this call
    response,           \* per caller: value returned to the caller
    raised,             \* per caller: exception raised to the caller
    reg,                \* per caller: counter value loaded by a += 1
    status,             \* value returned by the last get_api_status call
    abandoned           \* per caller: the awaiting task was cancelled

vars == << api_keys, current_key_index, key_usage_stats, key_cooldowns, now,
           resets, pc, kwargs, attempt, api_key, adj_kwargs, last_error,
           wake_at, dispatches, response, raised, reg, status, abandoned >>

poolVars == << api_keys, current_key_index, key_usage_stats, key_cooldowns >>
callerVars == << pc, kwargs, attempt, api_key, adj_kwargs, last_error,
                 wake_at, dispatches, response, raised >>

\* ------------------------------------------------------------ small helpers
Min(a, b) == IF a <= b THEN a ELSE b

RECURSIVE Pow2(_)
Pow2(n) == IF n = 0 THEN 1 ELSE 2 * Pow2(n - 1)

KeySet == { api_keys[i] : i \in 1..Len(api_keys) }

\* dict.get(name): the value, or None (here: absent) when the key is missing
Has(d, name) == name \in DOMAIN d

\* del d[k]
DictDel(d, k) == [x \in (DOMAIN d) \ {k} |-> d[x]]

\* d[k] = v
DictSet(d, k, v) == [x \in (DOMAIN d) \cup {k} |-> IF x = k THEN v ELSE d[x]]

FreshStats ==
    [requests |-> 0, errors |-> 0, last_used |-> NoTime,
     credits_exhausted |-> FALSE, rate_limited |-> FALSE]

\* ------------------------------------------------------- Availability
\* Variant: the entry still counts in the second of its expiry.
InCooldownInclusive(cds, key, t) == Has(cds, key) /\ t <= cds[key]

\* Lines 80-81: a cooldown entry that has not expired at time t.
InCooldown(cds, key, t) == Has(cds, key) /\ t < cds[key]

\* Line 91: neither flag is set.
FlagsClear(stats, key) ==
    ~stats[key].credits_exhausted /\ ~stats[key].rate_limited

\* The test a candidate must pass in the scan (lines 79-92).
IsUsable(key, t) ==
    ~InCooldown(key_cooldowns, key, t) /\ FlagsClear(key_usage_stats, key)

\* ------------------------------------------------------- Key Selector
\* Variant: the pointer is written back without being advanced.
RotateStaysPut(idx) == idx % Len(api_keys)

\* _rotate_to_next_key
RotateToNextKey(idx) == (idx + 1) % Len(api_keys)

\* Variant: among the keys with the fewest errors the last one is taken.
BestKeyLastMinimal ==
    LET i == CHOOSE i \in 1..Len(api_keys) :
                 /\ \A j \in 1..Len(api_keys) :
                        key_usage_stats[api_keys[i]].errors
                            <= key_usage_stats[api_keys[j]].errors
                 /\ \A j \in (i + 1)..Len(api_keys) :
                        key_usage_stats[api_keys[j]].errors
                            > key_usage_stats[api_keys[i]].errors
    IN api_keys[i]

\* Line 98: min(self.api_keys, key=errors) returns the first minimal element.
BestKey ==
    LET i == CHOOSE i \in 1..Len(api_keys) :
                 /\ \A j \in 1..Len(api_keys) :
                        key_usage_stats[api_keys[i]].errors
                            <= key_usage_stats[api_keys[j]].errors
                 /\ \A j \in 1..(i - 1) :
                        key_usage_stats[api_keys[j]].errors
                            > key_usage_stats[api_keys[i]].errors
    IN api_keys[i]

\* Variant: the scan gives up without the least-error fallback.
ScanKeysNoFallback(idx, cds, attempts) ==
    LET RECURSIVE Scan(_, _, _)
        Scan(i, d, a) ==
            IF a >= Len(api_keys)
            THEN [key |-> Unbound, idx |-> i, cds |-> d]
            ELSE LET key == api_keys[i + 1] IN
                 IF InCooldown(d, key, now)
                 THEN Scan(RotateToNextKey(i), d, a + 1)
                 ELSE LET d2 == IF Has(d, key) THEN DictDel(d, key) ELSE d IN
                      IF FlagsClear(key_usage_stats, key)
                      THEN [key |-> key, idx |-> i, cds |-> d2]
                      ELSE Scan(RotateToNextKey(i), d2, a + 1)
    IN Scan(idx, cds, attempts)

\* Variant: the scan starts at the head of the pool, not at the pointer.
ScanKeysFromHead(idx, cds, attempts) ==
    LET RECURSIVE Scan(_, _, _)
        Scan(i, d, a) ==
            IF a >= Len(api_keys)
            THEN [key |-> BestKey, idx |-> i, cds |-> d]
            ELSE LET key == api_keys[i + 1] IN
                 IF InCooldown(d, key, now)
                 THEN Scan(RotateToNextKey(i), d, a + 1)
                 ELSE LET d2 == IF Has(d, key) THEN DictDel(d, key) ELSE d IN
                      IF FlagsClear(key_usage_stats, key)
                      THEN [key |-> key, idx |-> i, cds |-> d2]
                      ELSE Scan(RotateToNextKey(i), d2, a + 1)
    IN Scan(0, cds, attempts)

\* The while loop of _get_next_available_key (lines 73-100), from the state
\* (idx, cds) after `attempts` candidates; yields the key returned and the
\* pointer and cooldown dict the call leaves behind.
RECURSIVE ScanKeys(_, _, _)
ScanKeys(idx, cds, attempts) ==
    IF attempts >= Len(api_keys)
    THEN [key |-> BestKey, idx |-> idx, cds |-> cds]
    ELSE LET key == api_keys[idx + 1] IN
         IF InCooldown(cds, key, now)
         THEN ScanKeys(RotateToNextKey(idx), cds, attempts + 1)
         ELSE LET cds2 == IF Has(cds, key) THEN DictDel(cds, key) ELSE cds IN
              IF FlagsClear(key_usage_stats, key)
              THEN [key |-> key, idx |-> idx, cds |-> cds2]
              ELSE ScanKeys(RotateToNextKey(idx), cds2, attempts + 1)

GetNextAvailableKey == ScanKeys(current_key_index, key_cooldowns, 0)

\* ------------------------------------------------------- Error handling
\* Lines 112 and 119: the ordered substring tests on str(error).lower().
IsCreditsError(text) ==
    "402" \in text \/ "payment required" \in text \/ "credit" \in text

IsRateLimitError(text) == "429" \in text \/ "rate limit" \in text

\* Variant: the rate-limit test is made before the credits test.
ClassifyRateFirst(text) ==
    IF IsRateLimitError(text) THEN "RateLimited"
    ELSE IF IsCreditsError(text) THEN "InsufficientCredits"
    ELSE "Other"

\* Lines 112, 119 and 124: if / elif / else.
Classify(text) ==
    IF IsCreditsError(text) THEN "InsufficientCredits"
    ELSE IF IsRateLimitError(text) THEN "RateLimited"
    ELSE "Other"

\* Variant: every cooldown lasts no longer than the shortest backoff.
CooldownForBrief(class) == retry_delay

CooldownFor(class) ==
    CASE class = "InsufficientCredits" -> CreditsCooldown
      [] class = "RateLimited" -> RateLimitCooldown
      [] OTHER -> OtherCooldown

\* Variant: a rate-limit error sets its flag but is not counted.
StatsAfterErrorRateUncounted(stats, key, text) ==
    LET class == Classify(text) IN
    [stats EXCEPT
        ![key].errors = IF class = "RateLimited" THEN @ ELSE @ + 1,
        ![key].credits_exhausted = IF class = "InsufficientCredits" THEN TRUE ELSE @,
        ![key].rate_limited = IF class = "RateLimited" THEN TRUE ELSE @]

\* Variant: a credits error is counted but does not set its flag.
StatsAfterErrorNoCreditsFlag(stats, key, text) ==
    LET class == Classify(text) IN
    [stats EXCEPT
        ![key].errors = @ + 1,
        ![key].rate_limited = IF class = "RateLimited" THEN TRUE ELSE @]

\* _handle_api_error: the statistics after the call.
StatsAfterError(stats, key, text) ==
    LET class == Classify(text) IN
    [stats EXCEPT
        ![key].errors = @ + 1,
        ![key].credits_exhausted = IF class = "InsufficientCredits" THEN TRUE ELSE @,
        ![key].rate_limited = IF class = "RateLimited" THEN TRUE ELSE @]

\* Variant: a credits error records no cooldown entry.
CooldownsAfterErrorNoCredits(cds, key, text, t) ==
    IF Classify(text) = "InsufficientCredits" THEN cds
    ELSE DictSet(cds, key, t + CooldownFor(Classify(text)))

\* Variant: a new cooldown is added to the time left of the entry before.
CooldownsAfterErrorStacked(cds, key, text, t) ==
    DictSet(cds, key,
            (IF InCooldown(cds, key, t) THEN cds[key] ELSE t)
                + CooldownFor(Classify(text)))

\* _handle_api_error: the cooldown dict after the call at time t.
CooldownsAfterError(cds, key, text, t) ==
    DictSet(cds, key, t + CooldownFor(Classify(text)))

\* ------------------------------------------------------- Request Degrader
ChainIndex(model) ==
    CHOOSE i \in 1..Len(model_fallback_chain) : model_fallback_chain[i] = model

\* Variant: the cap is assigned without taking the minimum with the budget.
AdjustMaxTokensNoMin(kw, n) ==
    IF Has(kw, "max_tokens") /\ kw.max_tokens # 0
    THEN IF n = 1 THEN [kw EXCEPT !.max_tokens = Cap1]
         ELSE IF n = 2 THEN [kw EXCEPT !.max_tokens = Cap2]
         ELSE IF n >= 3 THEN [kw EXCEPT !.max_tokens = Cap3]
         ELSE kw
    ELSE kw

\* Lines 136-143.
AdjustMaxTokens(kw, n) ==
    IF Has(kw, "max_tokens") /\ kw.max_tokens # 0
    THEN IF n = 1 THEN [kw EXCEPT !.max_tokens = Min(@, Cap1)]
         ELSE IF n = 2 THEN [kw EXCEPT !.max_tokens = Min(@, Cap2)]
         ELSE IF n >= 3 THEN [kw EXCEPT !.max_tokens = Min(@, Cap3)]
         ELSE kw
    ELSE kw

\* Variant: a model outside the chain is redirected from attempt 2 on only.
AdjustModelLateForce(kw, n) ==
    IF Has(kw, "model") /\ kw.model \in ChainModels
    THEN LET idx == ChainIndex(kw.model) IN
         IF n <= 2 /\ idx + 1 <= Len(model_fallback_chain)
         THEN [kw EXCEPT !.model = model_fallback_chain[idx + 1]]
         ELSE kw
    ELSE IF n >= 2 /\ Len(model_fallback_chain) > 0
         THEN DictSet(kw, "model", model_fallback_chain[1])
         ELSE kw

\* Variant: the chain step is taken for attempt numbers below 2 only.
AdjustModelShortStep(kw, n) ==
    IF Has(kw, "model") /\ kw.model \in ChainModels
    THEN LET idx == ChainIndex(kw.model) IN
         IF n < 2 /\ idx + 1 <= Len(model_fallback_chain)
         THEN [kw EXCEPT !.model = model_fallback_chain[idx + 1]]
         ELSE kw
    ELSE IF n >= 1 /\ Len(model_fallback_chain) > 0
         THEN DictSet(kw, "model", model_fallback_chain[1])
         ELSE kw

\* Lines 145-153.
AdjustModel(kw, n) ==
    IF Has(kw, "model") /\ kw.model \in ChainModels
    THEN LET idx == ChainIndex(kw.model) IN
         IF n <= 2 /\ idx + 1 <= Len(model_fallback_chain)
         THEN [kw EXCEPT !.model = model_fallback_chain[idx + 1]]
         ELSE kw
    ELSE IF n >= 1 /\ Len(model_fallback_chain) > 0
         THEN DictSet(kw, "model", model_fallback_chain[1])
         ELSE kw

\* _maybe_adjust_request
MaybeAdjustRequest(kw, n) == AdjustModel(AdjustMaxTokens(kw, n), n)

\* ------------------------------------------------------- construction
\* State after OpenRouterAPIManager() (lines 23-47) with a pool of n keys, and
\* every caller outside chat_completion.
IdleCallers ==
    /\ pc = [c \in Callers |-> "idle"]
    /\ kwargs = [c \in Callers |-> NoKwargs]
    /\ attempt = [c \in Callers |-> 0]
    /\ api_key = [c \in Callers |-> Unbound]
    /\ adj_kwargs = [c \in Callers |-> NoKwargs]
    /\ last_error = [c \in Callers |-> NoError]
    /\ wake_at = [c \in Callers |-> NoTime]
    /\ dispatches = [c \in Callers |-> << >>]
    /\ response = [c \in Callers |-> Unbound]
    /\ raised = [c \in Callers |-> NoError]
    /\ reg = [c \in Callers |-> 0]
    /\ abandoned = [c \in Callers |-> FALSE]

Constructed ==
    /\ \E n \in 1..MaxKeys : api_keys = SubSeq(KeyNames, 1, n)
    /\ current_key_index = 0
    /\ key_usage_stats = [k \in KeySet |-> FreshStats]
    /\ key_cooldowns = << >>
    /\ now = 0
    /\ resets = 0
    /\ status = NoStatus

Init == Constructed /\ IdleCallers

\* ------------------------------------------------------- chat_completion
\* The caller enters chat_completion(**kw): line 158 and the first pass of
\* the for statement of line 160.
Begin(c, kw) ==
    /\ pc[c] = "idle"
    /\ UNCHANGED << reg, status, abandoned >>
    /\ pc' = [pc EXCEPT ![c] = "select"]
    /\ kwargs' = [kwargs EXCEPT ![c] = kw]
    /\ attempt' = [attempt EXCEPT ![c] = 0]
    /\ last_error' = [last_error EXCEPT ![c] = NoError]
    /\ UNCHANGED << poolVars, now, resets, api_key, adj_kwargs, wake_at,
                    dispatches, response, raised >>

\* Variant: the use is timestamped but not counted.
StatsAfterUseUncounted(stats, key, t) ==
    [stats EXCEPT ![key].last_used = t]

\* Lines 168-170: the usage is recorded at time t, before the transport call.
StatsAfterUse(stats, key, t) ==
    [stats EXCEPT ![key].requests = @ + 1, ![key].last_used = t]

\* Lines 162-172: select the key, derive the request of this attempt, record
\* the usage; the transport call of line 174 is then in flight.
Attempt(c) ==
    /\ pc[c] = "select"
    /\ UNCHANGED << reg, status, abandoned >>
    /\ LET sel == GetNextAvailableKey
           adj == MaybeAdjustRequest(kwargs[c], attempt[c])
       IN /\ current_key_index' = sel.idx
          /\ key_cooldowns' = sel.cds
          /\ api_key' = [api_key EXCEPT ![c] = sel.key]
          /\ adj_kwargs' = [adj_kwargs EXCEPT ![c] = adj]
          /\ key_usage_stats' = StatsAfterUse(key_usage_stats, sel.key, now)
          /\ dispatches' =
                 [dispatches EXCEPT ![c] =
                     Append(@, [key |-> sel.key, request |-> adj,
                                attempt |-> attempt[c], sent_at |-> now,
                                error |-> NoError, done_at |-> NoTime])]
    /\ pc' = [pc EXCEPT ![c] = "inflight"]
    /\ UNCHANGED << api_keys, now, resets, kwargs, attempt, last_error, wake_at,
                    response, raised >>

\* The last transport call of the caller, completed at time t with `text`
\* (NoError for a response).
Completed(log, text, t) ==
    [log EXCEPT ![Len(log)].error = text, ![Len(log)].done_at = t]

\* Variant: a response clears the flags of the key that obtained it.
SucceedClearsFlags(c) ==
    /\ pc[c] = "inflight"
    /\ UNCHANGED << reg, status, abandoned >>
    /\ current_key_index' = RotateToNextKey(current_key_index)
    /\ key_usage_stats' =
           [key_usage_stats EXCEPT ![api_key[c]].credits_exhausted = FALSE,
                                   ![api_key[c]].rate_limited = FALSE]
    /\ response' = [response EXCEPT ![c] = api_key[c]]
    /\ dispatches' = [dispatches EXCEPT ![c] = Completed(@, NoError, now)]
    /\ pc' = [pc EXCEPT ![c] = "returned"]
    /\ UNCHANGED << api_keys, key_cooldowns, now, resets, kwargs,
                    attempt, api_key, adj_kwargs, last_error, wake_at, raised >>

\* Lines 174-178: the transport call returns a response.
Succeed(c) ==
    /\ pc[c] = "inflight"
    /\ UNCHANGED << reg, status, abandoned >>
    /\ current_key_index' = RotateToNextKey(current_key_index)
    /\ response' = [response EXCEPT ![c] = api_key[c]]
    /\ dispatches' = [dispatches EXCEPT ![c] = Completed(@, NoError, now)]
    /\ pc' = [pc EXCEPT ![c] = "returned"]
    /\ UNCHANGED << api_keys, key_usage_stats, key_cooldowns, now, resets, kwargs,
                    attempt, api_key, adj_kwargs, last_error, wake_at, raised >>

\* Variant: the delay does not grow with the attempt number.
BackoffDelayFlat(n, jitter) == retry_delay + jitter

\* Line 184: retry_delay * 2 ** attempt + random.uniform(0, 1), the jitter
\* taken at the two ends of its interval.
BackoffDelay(n, jitter) == retry_delay * Pow2(n) + jitter

\* Line 183: a delay follows the failed attempt n.
SleepsBeforeRetry(n) == n < max_retries - 1

\* Variant: the loop runs one attempt number too far.
LoopContinuesOneMore(n) == n + 1 <= max_retries

\* Line 160: range(self.max_retries) has a value after n.
LoopContinues(n) == n + 1 < max_retries

\* Variant: the first error of the call is kept.
LastErrorAfterKeepsFirst(prev, text) == IF prev = NoError THEN text ELSE prev

\* Line 181: last_error = e.
LastErrorAfter(prev, text) == text

\* Lines 180-190: the transport call raises an error whose text is `text`.
Fail(c, text, jitter) ==
    /\ pc[c] = "inflight"
    /\ UNCHANGED << reg, status, abandoned >>
    /\ last_error' = [last_error EXCEPT ![c] = LastErrorAfter(@, text)]
    /\ key_usage_stats' = StatsAfterError(key_usage_stats, api_key[c], text)
    /\ key_cooldowns' = CooldownsAfterError(key_cooldowns, api_key[c], text, now)
    /\ dispatches' = [dispatches EXCEPT ![c] = Completed(@, text, now)]
    /\ IF SleepsBeforeRetry(attempt[c])
       THEN /\ wake_at' = [wake_at EXCEPT ![c] = now + BackoffDelay(attempt[c], jitter)]
            /\ pc' = [pc EXCEPT ![c] = "sleep"]
            /\ UNCHANGED << attempt, raised >>
       ELSE /\ jitter = 0
            /\ IF LoopContinues(attempt[c])
               THEN /\ attempt' = [attempt EXCEPT ![c] = @ + 1]
                    /\ pc' = [pc EXCEPT ![c] = "select"]
                    /\ UNCHANGED << wake_at, raised >>
               ELSE /\ pc' = [pc EXCEPT ![c] = "raised"]
                    /\ raised' = [raised EXCEPT ![c] = last_error'[c]]
                    /\ UNCHANGED << wake_at, attempt >>
    /\ UNCHANGED << api_keys, current_key_index, now, resets, kwargs,
                    api_key, adj_kwargs, response >>

\* Variant: the loop variable jumps over an attempt number.
WakeSkipsAttempt(c) ==
    /\ pc[c] = "sleep"
    /\ UNCHANGED << reg, status, abandoned >>
    /\ now >= wake_at[c]
    /\ wake_at' = [wake_at EXCEPT ![c] = NoTime]
    /\ IF LoopContinues(attempt[c])
       THEN /\ attempt' = [attempt EXCEPT ![c] = @ + 2]
            /\ pc' = [pc EXCEPT ![c] = "select"]
            /\ raised' = raised
       ELSE /\ pc' = [pc EXCEPT ![c] = "raised"]
            /\ raised' = [raised EXCEPT ![c] = last_error[c]]
            /\ attempt' = attempt
    /\ UNCHANGED << poolVars, now, resets, kwargs, api_key, adj_kwargs,
                    last_error, dispatches, response >>

\* Lines 186-187 and 160: time.sleep returns and the loop takes the next
\* attempt number, or ends and line 190 raises last_error.
Wake(c) ==
    /\ pc[c] = "sleep"
    /\ UNCHANGED << reg, status, abandoned >>
    /\ now >= wake_at[c]
    /\ wake_at' = [wake_at EXCEPT ![c] = NoTime]
    /\ IF LoopContinues(attempt[c])
       THEN /\ attempt' = [attempt EXCEPT ![c] = @ + 1]
            /\ pc' = [pc EXCEPT ![c] = "select"]
            /\ raised' = raised
       ELSE /\ pc' = [pc EXCEPT ![c] = "raised"]
            /\ raised' = [raised EXCEPT ![c] = last_error[c]]
            /\ attempt' = attempt
    /\ UNCHANGED << poolVars, now, resets, kwargs, api_key, adj_kwargs,
                    last_error, dispatches, response >>

\* ------------------------------------------------------- reset_key_status
\* Variant: a valid index clears the flags and cooldowns of the whole pool.
ResetKeyClearsPool(key_index) ==
    /\ resets < MaxResets
    /\ UNCHANGED << reg, status, abandoned >>
    /\ resets' = resets + 1
    /\ IF 0 <= key_index /\ key_index < Len(api_keys)
       THEN /\ key_usage_stats' =
                   [k \in KeySet |-> [key_usage_stats[k] EXCEPT
                                          !.credits_exhausted = FALSE,
                                          !.rate_limited = FALSE]]
            /\ key_cooldowns' = << >>
       ELSE UNCHANGED << key_usage_stats, key_cooldowns >>
    /\ UNCHANGED << api_keys, current_key_index, now, callerVars >>

\* reset_key_status(key_index), lines 234-242.
ResetKey(key_index) ==
    /\ resets < MaxResets
    /\ UNCHANGED << reg, status, abandoned >>
    /\ resets' = resets + 1
    /\ IF 0 <= key_index /\ key_index < Len(api_keys)
       THEN LET key == api_keys[key_index + 1] IN
            /\ key_usage_stats' =
                   [key_usage_stats EXCEPT ![key].credits_exhausted = FALSE,
                                           ![key].rate_limited = FALSE]
            /\ key_cooldowns' =
                   IF Has(key_cooldowns, key) THEN DictDel(key_cooldowns, key)
                   ELSE key_cooldowns
       ELSE UNCHANGED << key_usage_stats, key_cooldowns >>
    /\ UNCHANGED << api_keys, current_key_index, now, callerVars >>

\* reset_key_status(), lines 243-247.
ResetAll ==
    /\ resets < MaxResets
    /\ UNCHANGED << reg, status, abandoned >>
    /\ resets' = resets + 1
    /\ key_usage_stats' =
           [k \in KeySet |-> [key_usage_stats[k] EXCEPT
                                  !.credits_exhausted = FALSE,
                                  !.rate_limited = FALSE]]
    /\ key_cooldowns' = << >>
    /\ UNCHANGED << api_keys, current_key_index, now, callerVars >>

\* ------------------------------------------------------- get_api_status
\* Line 207: the first ten and the last four characters of the key.
KeyPreview(key) ==
    CASE key = "sk-or-K1" -> "sk-or-K1...r-K1"
      [] key = "sk-or-K2" -> "sk-or-K2...r-K2"
      [] key = "sk-or-K3" -> "sk-or-K3...r-K3"
      [] key = "sk-or-K4" -> "sk-or-K4...r-K4"

\* Line 214.
Available(key) ==
    /\ ~key_usage_stats[key].credits_exhausted
    /\ ~key_usage_stats[key].rate_limited
    /\ ~Has(key_cooldowns, key)

\* Lines 204-217: the entry of the key at position i (0-based).
KeyStatus(i) ==
    LET key == api_keys[i + 1]
        stats == key_usage_stats[key]
        key_status == [index |-> i,
                       key_preview |-> KeyPreview(key),
                       requests |-> stats.requests,
                       errors |-> stats.errors,
                       last_used |-> stats.last_used,
                       credits_exhausted |-> stats.credits_exhausted,
                       rate_limited |-> stats.rate_limited,
                       in_cooldown |-> Has(key_cooldowns, key),
                       available |-> Available(key)]
    IN  IF Has(key_cooldowns, key)
        THEN DictSet(key_status, "cooldown_until", key_cooldowns[key])
        ELSE key_status

RECURSIVE SumOfStats(_, _)
\* Lines 220-221: sum of one counter over the first n keys.
SumOfStats(field, n) ==
    IF n = 0 THEN 0
    ELSE SumOfStats(field, n - 1) +
         (IF field = "requests" THEN key_usage_stats[api_keys[n]].requests
          ELSE key_usage_stats[api_keys[n]].errors)

\* Line 227, rounded down to a whole percentage.
ErrorRate(total_errors, total_requests) ==
    IF total_requests > 0 THEN (total_errors * 100) \div total_requests ELSE 0

\* Lines 198-231: the value get_api_status returns in the current state.
ApiStatus ==
    LET keys_status == [i \in 1..Len(api_keys) |-> KeyStatus(i - 1)]
        total_requests == SumOfStats("requests", Len(api_keys))
        total_errors == SumOfStats("errors", Len(api_keys))
        available_keys ==
            Cardinality({ i \in 1..Len(api_keys) : keys_status[i].available })
    IN  [total_keys |-> Len(api_keys),
         current_key_index |-> current_key_index,
         keys_status |-> keys_status,
         summary |-> [total_requests |-> total_requests,
                      total_errors |-> total_errors,
                      error_rate |-> ErrorRate(total_errors, total_requests),
                      available_keys |-> available_keys,
                      health_status |-> IF available_keys > 0 THEN "healthy"
                                        ELSE "degraded"]]

\* Variant: the snapshot drops the cooldown entries that have expired.
GetApiStatusPurging ==
    /\ status' = ApiStatus
    /\ key_cooldowns' =
           [k \in { j \in DOMAIN key_cooldowns : now < key_cooldowns[j] }
                |-> key_cooldowns[k]]
    /\ UNCHANGED << api_keys, current_key_index, key_usage_stats, now, resets,
                    callerVars, reg, abandoned >>

\* get_api_status, lines 197-231: the caller receives the snapshot.
GetApiStatus ==
    /\ status' = ApiStatus
    /\ UNCHANGED << poolVars, now, resets, callerVars, reg, abandoned >>

\* The caller of get_api_status is done with the value it received.
DropStatus ==
    /\ status # NoStatus
    /\ status' = NoStatus
    /\ UNCHANGED << poolVars, now, resets, callerVars, reg, abandoned >>

\* ------------------------------------------------------- the clock
\* Instants at which the scheduler's behaviour can change: the end of a
\* sleep, and the last second of a cooldown and the second of its expiry.
Sleepers == { c \in Callers : pc[c] = "sleep" }

Instants ==
    { wake_at[c] : c \in Sleepers }
      \cup UNION { { key_cooldowns[k] - 1, key_cooldowns[k] } :
                   k \in DOMAIN key_cooldowns }

\* Positions at which a caller is outside the call, waits for the transport
\* or sleeps; everywhere else it is running the code of lines 160-190.
Waiting == {"idle", "inflight", "sleep", "returned", "raised"}

\* datetime.now() moves on to instant t.  Time passes while callers wait for
\* the transport or sleep, not while one is running between them; a
\* sleeping caller wakes when its delay has elapsed, so the clock does not
\* pass the end of a sleep.
Tick(t) ==
    /\ t > now
    /\ UNCHANGED << reg, status, abandoned >>
    /\ \A c \in Callers : pc[c] \in Waiting
    /\ \A c \in Sleepers : t <= wake_at[c]
    /\ now' = t
    /\ UNCHANGED << poolVars, resets, callerVars >>

Next ==
    \/ \E c \in Solo, kw \in CallKwargs : Begin(c, kw)
    \/ \E c \in Callers : Attempt(c)
    \/ \E c \in Callers : Succeed(c)
    \/ \E c \in Callers, text \in ErrorTexts, jitter \in {0, 1} : Fail(c, text, jitter)
    \/ \E c \in Callers : Wake(c)
    \/ \E i \in -1..MaxKeys : ResetKey(i)
    \/ ResetAll
    \/ \E t \in Instants : Tick(t)

Spec == Init /\ [][Next]_vars

\* One call under the conditions that let it run to its end: its thread is
\* scheduled (lines 162-172 and the return of time.sleep are reached), the
\* transport call of line 174 comes back with a response or an error, and
\* time passes.
SpecLive ==
    /\ Init
    /\ [][Next]_vars
    /\ \A c \in Solo :
           /\ WF_vars(Attempt(c))
           /\ WF_vars(Succeed(c)
                        \/ \E text \in ErrorTexts, jitter \in {0, 1} :
                               Fail(c, text, jitter))
           /\ WF_vars(Wake(c))
    /\ WF_vars(\E t \in Instants : Tick(t))

\* ------------------------------------------------------- concurrent calls
\* chat_completion_async (lines 192-195) runs chat_completion on a thread of
\* the default executor, so calls overlap; the class holds no lock.  The two
\* in-place additions (lines 169 and 108) are a load followed by a store,
\* and another thread may run between the two.

\* Variant: a key is selected only while no other call waits for its
\* transport call or sleeps, as if the pool were locked for the whole attempt.
SelectKeyExclusive(c) ==
    /\ pc[c] = "select"
    /\ \A d \in Callers \ {c} : pc[d] \notin {"inflight", "sleep"}
    /\ LET sel == GetNextAvailableKey
           adj == MaybeAdjustRequest(kwargs[c], attempt[c])
       IN /\ current_key_index' = sel.idx
          /\ key_cooldowns' = sel.cds
          /\ api_key' = [api_key EXCEPT ![c] = sel.key]
          /\ adj_kwargs' = [adj_kwargs EXCEPT ![c] = adj]
    /\ pc' = [pc EXCEPT ![c] = "load_requests"]
    /\ UNCHANGED << api_keys, key_usage_stats, now, resets, kwargs, attempt,
                    last_error, wake_at, dispatches, response, raised, reg,
                    status, abandoned >>

\* Lines 162-166 on the thread of caller c.
SelectKey(c) ==
    /\ pc[c] = "select"
    /\ LET sel == GetNextAvailableKey
           adj == MaybeAdjustRequest(kwargs[c], attempt[c])
       IN /\ current_key_index' = sel.idx
          /\ key_cooldowns' = sel.cds
          /\ api_key' = [api_key EXCEPT ![c] = sel.key]
          /\ adj_kwargs' = [adj_kwargs EXCEPT ![c] = adj]
    /\ pc' = [pc EXCEPT ![c] = "load_requests"]
    /\ UNCHANGED << api_keys, key_usage_stats, now, resets, kwargs, attempt,
                    last_error, wake_at, dispatches, response, raised, reg,
                    status, abandoned >>

\* Line 169, the load of stats['requests'].
LoadRequests(c) ==
    /\ pc[c] = "load_requests"
    /\ reg' = [reg EXCEPT ![c] = key_usage_stats[api_key[c]].requests]
    /\ pc' = [pc EXCEPT ![c] = "store_requests"]
    /\ UNCHANGED << poolVars, now, resets, kwargs, attempt, api_key, adj_kwargs,
                    last_error, wake_at, dispatches, response, raised, status, abandoned >>

\* Line 169, the store of the sum; line 170; the transport call of line 174
\* is then in flight.
StoreRequests(c) ==
    /\ pc[c] = "store_requests"
    /\ key_usage_stats' =
           [key_usage_stats EXCEPT ![api_key[c]].requests = reg[c] + 1,
                                   ![api_key[c]].last_used = now]
    /\ dispatches' =
           [dispatches EXCEPT ![c] =
               Append(@, [key |-> api_key[c], request |-> adj_kwargs[c],
                          attempt |-> attempt[c], sent_at |-> now,
                          error |-> NoError, done_at |-> NoTime])]
    /\ pc' = [pc EXCEPT ![c] = "inflight"]
    /\ UNCHANGED << api_keys, current_key_index, key_cooldowns, now, resets,
                    kwargs, attempt, api_key, adj_kwargs, last_error, wake_at,
                    response, raised, reg, status, abandoned >>

\* Lines 180-182 and line 108, the load of ['errors']: the transport call
\* raised an error whose text is `text`.
LoadErrors(c, text) ==
    /\ pc[c] = "inflight"
    /\ last_error' = [last_error EXCEPT ![c] = LastErrorAfter(@, text)]
    /\ dispatches' = [dispatches EXCEPT ![c] = Completed(@, text, now)]
    /\ reg' = [reg EXCEPT ![c] = key_usage_stats[api_key[c]].errors]
    /\ pc' = [pc EXCEPT ![c] = "store_errors"]
    /\ UNCHANGED << poolVars, now, resets, kwargs, attempt, api_key, adj_kwargs,
                    wake_at, response, raised, status, abandoned >>

\* Line 108, the store of the sum; lines 110-127 and 183-190.
StoreErrors(c, jitter) ==
    /\ pc[c] = "store_errors"
    /\ key_usage_stats' =
           [StatsAfterError(key_usage_stats, api_key[c], last_error[c])
                EXCEPT ![api_key[c]].errors = reg[c] + 1]
    /\ key_cooldowns' =
           CooldownsAfterError(key_cooldowns, api_key[c], last_error[c], now)
    /\ IF SleepsBeforeRetry(attempt[c])
       THEN /\ wake_at' = [wake_at EXCEPT ![c] = now + BackoffDelay(attempt[c], jitter)]
            /\ pc' = [pc EXCEPT ![c] = "sleep"]
            /\ UNCHANGED << attempt, raised >>
       ELSE /\ jitter = 0
            /\ IF LoopContinues(attempt[c])
               THEN /\ attempt' = [attempt EXCEPT ![c] = @ + 1]
                    /\ pc' = [pc EXCEPT ![c] = "select"]
                    /\ UNCHANGED << wake_at, raised >>
               ELSE /\ pc' = [pc EXCEPT ![c] = "raised"]
                    /\ raised' = [raised EXCEPT ![c] = last_error[c]]
                    /\ UNCHANGED << wake_at, attempt >>
    /\ UNCHANGED << api_keys, current_key_index, now, resets, kwargs, api_key,
                    adj_kwargs, last_error, dispatches, response, reg, status, abandoned >>

\* Error texts of the concurrent calls: one of class Other, one rate limit.
RaceTexts == { {}, {"429"} }

\* The request both concurrent callers make (document_ai_analyzer.py l.117).
RaceKwargs == { [model |-> model_fallback_chain[1], max_tokens |-> 4000] }

\* With overlapping calls the clock is followed from one end of a backoff
\* sleep to the next.
WakeInstants == { wake_at[c] : c \in Sleepers }

NextRace ==
    \/ \E c \in Callers, kw \in RaceKwargs : Begin(c, kw)
    \/ \E c \in Callers : SelectKey(c)
    \/ \E c \in Callers : LoadRequests(c)
    \/ \E c \in Callers : StoreRequests(c)
    \/ \E c \in Callers : Succeed(c)
    \/ \E c \in Callers, text \in RaceTexts : LoadErrors(c, text)
    \/ \E c \in Callers : StoreErrors(c, 0)
    \/ \E c \in Callers : Wake(c)
    \/ \E t \in WakeInstants : Tick(t)

SpecRace == Init /\ [][NextRace]_vars

\* ------------------------------------------------------- abandoned calls
\* The task awaiting chat_completion_async (line 195) is cancelled while the
\* call runs.  The await ends; the executor thread running chat_completion
\* is not interrupted and nothing in lines 156-190 looks at the caller.
Abandon(c) ==
    /\ pc[c] \in {"select", "inflight", "sleep"}
    /\ ~abandoned[c]
    /\ abandoned' = [abandoned EXCEPT ![c] = TRUE]
    /\ UNCHANGED << poolVars, now, resets, callerVars, reg, status >>

NextAbandon ==
    \/ Next
    \/ \E c \in Solo : Abandon(c)

SpecAbandon == Init /\ [][NextAbandon]_vars

\* The scheduler observed through get_api_status: a snapshot is taken in any
\* state and read by its caller before the scheduler moves on.
NextStatus ==
    \/ GetApiStatus
    \/ DropStatus
    \/ status = NoStatus /\ Next

SpecStatus == Init /\ [][NextStatus]_vars

\* ------------------------------------------------------- the degrader alone
\* _maybe_adjust_request applied to every kwargs of AllKwargs at the attempt
\* numbers 0..MaxAttempt in turn, on a freshly constructed manager.
InitDegrade ==
    /\ Constructed
    /\ Len(api_keys) = 1
    /\ \E kw \in AllKwargs :
           kwargs = [c \in Callers |-> IF c \in Solo THEN kw ELSE NoKwargs]
    /\ pc = [c \in Callers |-> IF c \in Solo THEN "adjust" ELSE "idle"]
    /\ attempt = [c \in Callers |-> 0]
    /\ api_key = [c \in Callers |-> Unbound]
    /\ adj_kwargs = [c \in Callers |-> NoKwargs]
    /\ last_error = [c \in Callers |-> NoError]
    /\ wake_at = [c \in Callers |-> NoTime]
    /\ dispatches = [c \in Callers |-> << >>]
    /\ response = [c \in Callers |-> Unbound]
    /\ raised = [c \in Callers |-> NoError]
    /\ reg = [c \in Callers |-> 0]
    /\ abandoned = [c \in Callers |-> FALSE]

\* Variant: from the second attempt on, the request is derived from the
\* request of the attempt before.
DegradeApplyChained(c) ==
    /\ pc[c] = "adjust"
    /\ UNCHANGED << reg, status, abandoned >>
    /\ adj_kwargs' =
           [adj_kwargs EXCEPT ![c] =
               MaybeAdjustRequest(IF attempt[c] = 0 THEN kwargs[c] ELSE @,
                                  attempt[c])]
    /\ pc' = [pc EXCEPT ![c] = "adjusted"]
    /\ UNCHANGED << poolVars, now, resets, kwargs, attempt, api_key, last_error,
                    wake_at, dispatches, response, raised >>

\* Line 166.
DegradeApply(c) ==
    /\ pc[c] = "adjust"
    /\ UNCHANGED << reg, status, abandoned >>
    /\ adj_kwargs' = [adj_kwargs EXCEPT ![c] = MaybeAdjustRequest(kwargs[c], attempt[c])]
    /\ pc' = [pc EXCEPT ![c] = "adjusted"]
    /\ UNCHANGED << poolVars, now, resets, kwargs, attempt, api_key, last_error,
                    wake_at, dispatches, response, raised >>

\* The next attempt number; adj_kwargs keeps the request of the attempt before.
DegradeRetry(c) ==
    /\ pc[c] = "adjusted"
    /\ UNCHANGED << reg, status, abandoned >>
    /\ attempt[c] < MaxAttempt
    /\ attempt' = [attempt EXCEPT ![c] = @ + 1]
    /\ pc' = [pc EXCEPT ![c] = "adjust"]
    /\ UNCHANGED << poolVars, now, resets, kwargs, api_key, adj_kwargs,
                    last_error, wake_at, dispatches, response, raised >>

NextDegrade ==
    \/ \E c \in Solo : DegradeApply(c)
    \/ \E c \in Solo : DegradeRetry(c)

SpecDegrade == InitDegrade /\ [][NextDegrade]_vars

\* =================================================================== claims
\* ------------------------------------------------------------------ C8
\* C8: for every original budget B and attempt number n the degrader yields
\* B for n = 0, min(B, 2048) for n = 1, min(B, 1024) for n = 2 and
\* min(B, 512) for n >= 3; the result never exceeds B and is not larger
\* than the result for attempt n - 1.
C8_BudgetCaps ==
    \A c \in Callers :
        (pc[c] = "adjusted" /\ Has(kwargs[c], "max_tokens")) =>
            LET B == kwargs[c].max_tokens
                n == attempt[c]
                r == adj_kwargs[c]
            IN /\ Has(r, "max_tokens")
               /\ r.max_tokens = (IF n = 0 THEN B
                                  ELSE IF n = 1 THEN Min(B, 2048)
                                  ELSE IF n = 2 THEN Min(B, 1024)
                                  ELSE Min(B, 512))
               /\ r.max_tokens <= B
               /\ n >= 1 => r.max_tokens <= MaybeAdjustRequest(kwargs[c], n - 1).max_tokens

C8_Witness ==
    \E c \in Callers :
        /\ pc[c] = "adjusted"
        /\ attempt[c] = 3
        /\ Has(kwargs[c], "max_tokens")
        /\ kwargs[c].max_tokens > 2048
        /\ adj_kwargs[c].max_tokens = 512

\* ------------------------------------------------------------------ C9
\* C9: when the requested model is not an entry of the fallback chain, the
\* degrader leaves the model as it is at attempt 0 and returns the first
\* entry of the chain at every attempt number >= 1.
C9_UnknownModel ==
    \A c \in Callers :
        (pc[c] = "adjusted"
           /\ ~(Has(kwargs[c], "model") /\ kwargs[c].model \in ChainModels)) =>
            LET r == adj_kwargs[c] IN
            IF attempt[c] = 0
            THEN /\ Has(r, "model") = Has(kwargs[c], "model")
                 /\ Has(r, "model") => r.model = kwargs[c].model
            ELSE /\ Has(r, "model")
                 /\ r.model = "qwen/qwen-2.5-72b-instruct"

C9_Witness ==
    \E c \in Callers :
        /\ pc[c] = "adjusted"
        /\ attempt[c] = 1
        /\ Has(kwargs[c], "model")
        /\ kwargs[c].model = CustomModel
        /\ adj_kwargs[c].model = model_fallback_chain[1]

\* ------------------------------------------------------------------ C10
\* C10: when the requested model is the chain entry at index i, the degrader
\* returns the entry at index i + 1 at every attempt number <= 2 if that
\* entry exists; for the last entry, or an attempt number >= 3, the model
\* is returned unchanged.
C10_ChainStep ==
    \A c \in Callers :
        \A i \in 1..Len(model_fallback_chain) :
            (pc[c] = "adjusted" /\ Has(kwargs[c], "model")
               /\ kwargs[c].model = model_fallback_chain[i]) =>
                /\ Has(adj_kwargs[c], "model")
                /\ adj_kwargs[c].model =
                       IF attempt[c] <= 2 /\ i < Len(model_fallback_chain)
                       THEN model_fallback_chain[i + 1]
                       ELSE kwargs[c].model

C10_Witness ==
    \E c \in Callers :
        /\ pc[c] = "adjusted"
        /\ attempt[c] = 2
        /\ Has(kwargs[c], "model")
        /\ kwargs[c].model = model_fallback_chain[1]
        /\ adj_kwargs[c].model = model_fallback_chain[2]

\* --------------------------------------------------- helpers of the claims
\* 0-based position of a key in the pool.
KeyIndex(k) == (CHOOSE i \in 1..Len(api_keys) : api_keys[i] = k) - 1

\* The transport calls of caller c that have ended in an error.
FailedAt(c) ==
    { i \in 1..Len(dispatches[c]) :
          dispatches[c][i].done_at # NoTime /\ dispatches[c][i].error # NoError }

\* ------------------------------------------------------------------ C1
\* C1: in every reachable state of a non-empty pool the key selection can be
\* carried out (the pointer indexes the pool, every key has its statistics)
\* and returns a member of the pool, and the key a caller holds after a
\* selection is a member of the pool.
C1_SelectKeyInPool ==
    /\ Len(api_keys) >= 1
    /\ current_key_index \in 0..(Len(api_keys) - 1)
    /\ KeySet \subseteq DOMAIN key_usage_stats
    /\ DOMAIN key_cooldowns \subseteq KeySet
    /\ GetNextAvailableKey.key \in KeySet
    /\ GetNextAvailableKey.idx \in 0..(Len(api_keys) - 1)
    /\ \A c \in Callers : pc[c] = "inflight" => api_key[c] \in KeySet

\* A selection made while every key of a pool of two is flagged or cooling
\* down: the fallback has returned a key.
C1_Witness ==
    \E c \in Callers :
        /\ pc[c] = "inflight"
        /\ Len(api_keys) = 2
        /\ attempt[c] = 2
        /\ \A k \in KeySet : ~IsUsable(k, now)
        /\ api_key[c] \in KeySet

\* ------------------------------------------------------------------ C2
\* C2 as stated: a key whose cooldown has not expired is never returned by
\* the selection, and a key whose cooldown has expired and that has no flag
\* set is returned by a selection that starts at it.
C2_Original ==
    \A k \in KeySet :
        /\ InCooldown(key_cooldowns, k, now) => GetNextAvailableKey.key # k
        /\ (Has(key_cooldowns, k) /\ now >= key_cooldowns[k]
              /\ FlagsClear(key_usage_stats, k)) =>
                ScanKeys(KeyIndex(k), key_cooldowns, 0).key = k

\* C2 amended: a key whose cooldown has not expired is returned by the
\* selection only when no key of the pool is usable (the least-error
\* fallback); a key whose cooldown has expired and that has no flag set is
\* returned by a selection that starts at it.
C2_CooldownExcludes ==
    \A k \in KeySet :
        /\ (InCooldown(key_cooldowns, k, now) /\ GetNextAvailableKey.key = k) =>
               \A k2 \in KeySet : ~IsUsable(k2, now)
        /\ (Has(key_cooldowns, k) /\ now >= key_cooldowns[k]
              /\ FlagsClear(key_usage_stats, k)) =>
                ScanKeys(KeyIndex(k), key_cooldowns, 0).key = k

\* The key of the first, failed attempt is selected again for the third one
\* in a pool of two, its cooldown entry having expired and been dropped by
\* the scan.
C2_Witness ==
    \E c \in Callers :
        /\ pc[c] = "inflight"
        /\ resets = 0
        /\ Len(api_keys) = 2
        /\ Len(dispatches[c]) = 3
        /\ 1 \in FailedAt(c)
        /\ dispatches[c][1].key = api_key[c]
        /\ dispatches[c][2].key # api_key[c]
        /\ ~Has(key_cooldowns, api_key[c])
        /\ now >= dispatches[c][1].done_at + 30

\* ------------------------------------------------------------------ C3
\* C3 as stated: after a failure classified InsufficientCredits at time T,
\* with no reset, the key is unusable at every time in [T, T + 30 min) and
\* usable at any time after T + 30 min when no other failure was recorded.
C3_Original ==
    \A c \in Callers : \A i \in FailedAt(c) :
        LET k == dispatches[c][i].key
            T == dispatches[c][i].done_at
        IN (resets = 0 /\ IsCreditsError(dispatches[c][i].error)) =>
               /\ now < T + 1800 => ~IsUsable(k, now)
               /\ (now > T + 1800 /\ key_usage_stats[k].errors = 1) => IsUsable(k, now)

\* C3 amended: after a failure classified InsufficientCredits at time T,
\* with no reset, the key is unusable at every time from T on, before and
\* after T + 30 min: credits_exhausted stays set; when no other failure was
\* recorded on the key its cooldown entry is live exactly until T + 30 min.
C3_CreditsExhausted ==
    \A c \in Callers : \A i \in FailedAt(c) :
        LET k == dispatches[c][i].key
            T == dispatches[c][i].done_at
        IN (resets = 0 /\ IsCreditsError(dispatches[c][i].error)) =>
               /\ now >= T
               /\ ~IsUsable(k, now)
               /\ key_usage_stats[k].credits_exhausted
               /\ key_usage_stats[k].errors = 1 =>
                      (InCooldown(key_cooldowns, k, now) <=> now < T + 1800)

\* The 30 minutes have passed since a credits failure and no reset was made.
C3_Witness ==
    \E c \in Callers : \E i \in FailedAt(c) :
        /\ resets = 0
        /\ IsCreditsError(dispatches[c][i].error)
        /\ key_usage_stats[dispatches[c][i].key].errors = 1
        /\ now >= dispatches[c][i].done_at + 1800
        /\ ~IsUsable(dispatches[c][i].key, now)

\* ------------------------------------------------------------------ C4
\* C4: the step that records a failure at time now leaves the key with the
\* cooldown entry now + D, with D = 1800 s for InsufficientCredits, 60 s for
\* RateLimited and 30 s for Other, whatever entry it had before; it sets
\* credits_exhausted only for InsufficientCredits, rate_limited only for
\* RateLimited, changes no flag for Other, and leaves the entries and flags
\* of the other keys alone.
C4_RecordFailure ==
    [][ \A c \in Callers :
          (pc[c] = "inflight" /\ pc'[c] \notin {"inflight", "returned"}) =>
              LET k == api_key[c]
                  class == Classify(last_error'[c])
                  D == IF class = "InsufficientCredits" THEN 1800
                       ELSE IF class = "RateLimited" THEN 60
                       ELSE 30
              IN /\ Has(key_cooldowns', k)
                 /\ key_cooldowns'[k] = now + D
                 /\ key_usage_stats'[k].credits_exhausted =
                        (key_usage_stats[k].credits_exhausted
                           \/ class = "InsufficientCredits")
                 /\ key_usage_stats'[k].rate_limited =
                        (key_usage_stats[k].rate_limited \/ class = "RateLimited")
                 /\ \A k2 \in KeySet \ {k} :
                        /\ Has(key_cooldowns', k2) = Has(key_cooldowns, k2)
                        /\ Has(key_cooldowns, k2) => key_cooldowns'[k2] = key_cooldowns[k2]
                        /\ key_usage_stats'[k2] = key_usage_stats[k2]
      ]_vars

\* A key whose 30-minute entry is still live fails again with an error of
\* class Other: the entry now ends 30 s after the second failure.
C4_Witness ==
    \E c \in Callers :
        /\ pc[c] = "sleep"
        /\ {1, 2} \subseteq FailedAt(c)
        /\ dispatches[c][1].key = dispatches[c][2].key
        /\ IsCreditsError(dispatches[c][1].error)
        /\ dispatches[c][2].error = {}
        /\ dispatches[c][2].done_at < dispatches[c][1].done_at + 1800
        /\ Has(key_cooldowns, dispatches[c][2].key)
        /\ key_cooldowns[dispatches[c][2].key] = dispatches[c][2].done_at + 30

\* ------------------------------------------------------------------ C5
\* C5: a call ends with an error raised to the caller exactly when three
\* transport calls of it have failed; no call makes more than three; a call
\* that returns made a last transport call that succeeded; and on a pool of
\* one key whose every transport call fails the call makes exactly three
\* transport calls and then raises.
C5_TerminalError ==
    \A c \in Callers :
        /\ pc[c] = "raised" <=> Cardinality(FailedAt(c)) = 3
        /\ Len(dispatches[c]) <= 3
        /\ pc[c] = "raised" => (Len(dispatches[c]) = 3 /\ raised[c] # NoError)
        /\ pc[c] = "returned" =>
               /\ raised[c] = NoError
               /\ Len(dispatches[c]) \notin FailedAt(c)
               /\ dispatches[c][Len(dispatches[c])].done_at # NoTime
        /\ (Len(api_keys) = 1 /\ pc[c] \in {"returned", "raised"}
              /\ FailedAt(c) = 1..Len(dispatches[c])) =>
               (pc[c] = "raised" /\ Len(dispatches[c]) = 3)

C5_Witness ==
    \E c \in Callers :
        /\ Len(api_keys) = 1
        /\ pc[c] = "raised"
        /\ FailedAt(c) = {1, 2, 3}

\* ------------------------------------------------------------------ C6
\* C6: on a fresh pool [K1, K2], with no reset, when the first transport
\* call (made with K1) failed with a credits error and the first transport
\* call made with K2 succeeded, the finished call has returned K2's response
\* after exactly 2 transport calls, K1 has credits_exhausted set and the
\* cooldown entry failure time + 1800 s, and K2's request count is 1.
C6_TwoKeyScenario ==
    \A c \in Solo :
        LET d == dispatches[c]
            K1 == KeyNames[1]
            K2 == KeyNames[2]
        IN (/\ api_keys = << K1, K2 >>
            /\ resets = 0
            /\ pc[c] \in {"returned", "raised"}
            /\ 1 \in FailedAt(c)
            /\ IsCreditsError(d[1].error)
            /\ \A i \in 1..Len(d) :
                   (d[i].key = K2 /\ \A j \in 1..(i - 1) : d[j].key # K2) =>
                       i \notin FailedAt(c)) =>
               /\ d[1].key = K1
               /\ pc[c] = "returned"
               /\ Len(d) = 2
               /\ d[2].key = K2
               /\ response[c] = K2
               /\ key_usage_stats[K1].credits_exhausted
               /\ Has(key_cooldowns, K1)
               /\ key_cooldowns[K1] = d[1].done_at + 1800
               /\ key_usage_stats[K2].requests = 1

C6_Witness ==
    \E c \in Solo :
        /\ api_keys = << KeyNames[1], KeyNames[2] >>
        /\ resets = 0
        /\ pc[c] = "returned"
        /\ Len(dispatches[c]) = 2
        /\ IsCreditsError(dispatches[c][1].error)
        /\ dispatches[c][1].key = KeyNames[1]
        /\ response[c] = KeyNames[2]

\* ------------------------------------------------------------------ C7
\* C7: on a pool of one key, once three transport calls in a row have
\* failed with a rate-limit error the call has raised after exactly 3
\* transport calls, all made with that key although it was flagged and in
\* cooldown at attempts 1 and 2; the key has error count 3 and, with no
\* reset, rate_limited set.
C7_SingleKeyRateLimited ==
    \A c \in Solo :
        LET d == dispatches[c] IN
        (/\ Len(api_keys) = 1
         /\ Len(d) >= 3
         /\ {1, 2, 3} \subseteq FailedAt(c)
         /\ \A i \in 1..3 : Classify(d[i].error) = "RateLimited") =>
            /\ pc[c] = "raised"
            /\ Len(d) = 3
            /\ raised[c] = d[3].error
            /\ \A i \in 1..3 : d[i].key = api_keys[1]
            /\ key_usage_stats[api_keys[1]].errors = 3
            /\ resets = 0 =>
                   /\ key_usage_stats[api_keys[1]].rate_limited
                   /\ \A i \in 2..3 : d[i].sent_at < d[i - 1].done_at + 60

C7_Witness ==
    \E c \in Solo :
        /\ Len(api_keys) = 1
        /\ resets = 0
        /\ pc[c] = "raised"
        /\ FailedAt(c) = {1, 2, 3}
        /\ \A i \in 1..3 : dispatches[c][i].error = {"429"}
        /\ key_usage_stats[api_keys[1]].errors = 3

\* ---------------------------------------------------------------------------
\* Degrading is monotone in the attempt number
\* ---------------------------------------------------------------------------

\* C11: the model returned for an attempt is never a more expensive entry of
\* the fallback chain (one of lower index) than the model returned for the
\* attempt before it, hence than for any earlier attempt.
C11_ModelMonotone ==
    [][\A c \in Solo :
          ( /\ pc[c] = "adjust"
            /\ pc'[c] = "adjusted"
            /\ attempt[c] >= 1
            /\ Has(adj_kwargs[c], "model")
            /\ adj_kwargs[c].model \in ChainModels
            /\ Has(adj_kwargs'[c], "model")
            /\ adj_kwargs'[c].model \in ChainModels )
          => ChainIndex(adj_kwargs'[c].model) >= ChainIndex(adj_kwargs[c].model)]_vars

\* ---------------------------------------------------------------------------
\* reset_key_status
\* ---------------------------------------------------------------------------

\* The counters of every key, the pool and the rotation pointer are the same
\* before and after the step.
CountersAndPointerKept ==
    /\ api_keys' = api_keys
    /\ current_key_index' = current_key_index
    /\ \A k \in KeySet :
           /\ key_usage_stats'[k].requests = key_usage_stats[k].requests
           /\ key_usage_stats'[k].errors = key_usage_stats[k].errors
           /\ key_usage_stats'[k].last_used = key_usage_stats[k].last_used

\* Flags and cooldown of key k are the same before and after the step.
FlagsAndCooldownKept(k) ==
    /\ key_usage_stats'[k] = key_usage_stats[k]
    /\ Has(key_cooldowns', k) <=> Has(key_cooldowns, k)
    /\ Has(key_cooldowns, k) => key_cooldowns'[k] = key_cooldowns[k]

\* Key k has no flag and no cooldown after the step.
ClearedAfter(k) ==
    /\ ~key_usage_stats'[k].credits_exhausted
    /\ ~key_usage_stats'[k].rate_limited
    /\ ~Has(key_cooldowns', k)

\* C12: reset_key_status(K) clears both flags and the cooldown of key K and
\* leaves the flags and cooldowns of the other keys, all counters and the
\* pointer as they were; reset_key_status() clears the flags and the cooldown
\* of every key and leaves counters and pointer; an index outside the pool
\* changes nothing.
C12_ResetFrame ==
    [][ /\ \A i \in -1..MaxKeys :
               ResetKey(i) =>
                   /\ CountersAndPointerKept
                   /\ IF 0 <= i /\ i < Len(api_keys)
                      THEN /\ ClearedAfter(api_keys[i + 1])
                           /\ \A k \in KeySet \ {api_keys[i + 1]} :
                                  FlagsAndCooldownKept(k)
                      ELSE \A k \in KeySet : FlagsAndCooldownKept(k)
        /\ ResetAll =>
               /\ CountersAndPointerKept
               /\ \A k \in KeySet : ClearedAfter(k) ]_vars

\* Both keys of a pool failed for lack of credits; the first was reset alone
\* and is clean, the second still carries its flag and its cooldown.
C12_Witness ==
    /\ Len(api_keys) = 2
    /\ resets = 1
    /\ Len(dispatches["a"]) >= 2
    /\ dispatches["a"][1].key = api_keys[1]
    /\ dispatches["a"][2].key = api_keys[2]
    /\ dispatches["a"][1].error # NoError
    /\ dispatches["a"][2].error # NoError
    /\ IsCreditsError(dispatches["a"][1].error)
    /\ IsCreditsError(dispatches["a"][2].error)
    /\ ~key_usage_stats[api_keys[1]].credits_exhausted
    /\ ~Has(key_cooldowns, api_keys[1])
    /\ key_usage_stats[api_keys[1]].errors = 1
    /\ key_usage_stats[api_keys[2]].credits_exhausted
    /\ Has(key_cooldowns, api_keys[2])

\* ---------------------------------------------------------------------------
\* get_api_status
\* ---------------------------------------------------------------------------

\* C13: a get_api_status call leaves the pool, the pointer, every counter,
\* flag and timestamp and every cooldown entry, expired ones included, as
\* they were.
C13_SnapshotFrame ==
    [][(status' # status /\ status' # NoStatus)
           => UNCHANGED << api_keys, current_key_index, key_usage_stats,
                           key_cooldowns, now, resets, callerVars >>]_vars

\* A snapshot taken while an expired cooldown entry is still in the table.
C13_Witness ==
    /\ status # NoStatus
    /\ \E i \in 1..Len(api_keys) :
           /\ Has(key_cooldowns, api_keys[i])
           /\ now >= key_cooldowns[api_keys[i]]
           /\ status.keys_status[i].in_cooldown
           /\ status.keys_status[i].cooldown_until = key_cooldowns[api_keys[i]]

\* C14: the snapshot's available_keys is the number of keys that are usable
\* at the time of the snapshot (no flag set and no cooldown whose expiry is
\* still ahead), and health_status is "healthy" exactly when that number is
\* positive.
C14_AvailableKeys ==
    status # NoStatus =>
        LET usable == { k \in KeySet : IsUsable(k, now) } IN
        /\ status.summary.available_keys = Cardinality(usable)
        /\ status.summary.health_status = "healthy" <=> usable # {}

\* ---------------------------------------------------------------------------
\* Least-error fallback
\* ---------------------------------------------------------------------------

\* C15: when no key of the pool is usable, the selection returns a key whose
\* error count is the smallest of the pool and, among the keys with that
\* count, the one of lowest index, whatever its flags and cooldown.
C15_LeastErrorFallback ==
    (\A k \in KeySet : ~IsUsable(k, now)) =>
        LET sel == GetNextAvailableKey.key IN
        /\ sel \in KeySet
        /\ \A k \in KeySet :
               key_usage_stats[sel].errors <= key_usage_stats[k].errors
        /\ \A k \in KeySet :
               key_usage_stats[k].errors = key_usage_stats[sel].errors
                   => KeyIndex(sel) <= KeyIndex(k)

\* No key is usable, the second key has fewer errors than the first and is
\* the one selected although it is in cooldown.
C15_Witness ==
    /\ Len(api_keys) = 2
    /\ \A k \in KeySet : ~IsUsable(k, now)
    /\ key_usage_stats[api_keys[2]].errors < key_usage_stats[api_keys[1]].errors
    /\ InCooldown(key_cooldowns, api_keys[2], now)
    /\ GetNextAvailableKey.key = api_keys[2]

\* ---------------------------------------------------------------------------
\* Counters
\* ---------------------------------------------------------------------------

\* C16: the request count and the last-use time of a key change only in a
\* step in which a dispatch made with that key completes successfully, and
\* then the request count grows by exactly 1; in particular a step in which
\* a dispatch fails leaves both as they were.
C16_UsageOnSuccessOnly ==
    [][\A k \in KeySet :
          ( \/ key_usage_stats'[k].requests # key_usage_stats[k].requests
            \/ key_usage_stats'[k].last_used # key_usage_stats[k].last_used )
          => \E c \in Callers :
                 /\ pc[c] = "inflight"
                 /\ pc'[c] = "returned"
                 /\ api_key[c] = k
                 /\ key_usage_stats'[k].requests
                        = key_usage_stats[k].requests + 1]_vars

\* The step records the failure of the dispatch caller c made: the handling
\* of the error ends and the caller goes to sleep or gives up.
FailureStepOf(c) ==
    /\ pc[c] \in {"inflight", "store_errors"}
    /\ pc'[c] \in {"sleep", "raised"}

\* C17: a step in which a dispatch fails adds exactly 1 to the error count
\* of the key the dispatch used and leaves the error count of every other
\* key alone; no step of any operation, resets included, lowers an error
\* count or changes it otherwise.
C17_ErrorCount ==
    [][ /\ \A c \in Callers :
               FailureStepOf(c) =>
                   /\ key_usage_stats'[api_key[c]].errors
                          = key_usage_stats[api_key[c]].errors + 1
                   /\ \A k \in KeySet \ {api_key[c]} :
                          key_usage_stats'[k].errors = key_usage_stats[k].errors
        /\ \A k \in KeySet :
               /\ key_usage_stats'[k].errors >= key_usage_stats[k].errors
               /\ key_usage_stats'[k].errors # key_usage_stats[k].errors
                      => \E c \in Callers :
                             FailureStepOf(c) /\ api_key[c] = k ]_vars

\* ---------------------------------------------------------------------------
\* Outcome of a call
\* ---------------------------------------------------------------------------

\* C18: a call ends in exactly one of two ways, the response of a transport
\* call or one error raised to the caller; while it runs neither is there,
\* so the errors of the attempts that are retried are not raised; the error
\* raised is the one of the last (third) transport call, and a call that
\* returns does so on a transport call that did not fail.
C18_Outcome ==
    \A c \in Callers :
        /\ ~(response[c] # Unbound /\ raised[c] # NoError)
        /\ response[c] # Unbound <=> pc[c] = "returned"
        /\ raised[c] # NoError <=> pc[c] = "raised"
        /\ pc[c] = "raised" =>
               /\ Len(dispatches[c]) = max_retries
               /\ raised[c] = dispatches[c][max_retries].error
        /\ pc[c] = "returned" =>
               /\ dispatches[c][Len(dispatches[c])].error = NoError
               /\ response[c] = dispatches[c][Len(dispatches[c])].key

\* A call that raised after three failures whose errors differ: the text
\* raised is the third one, not the first or the second.
C18_Witness ==
    \E c \in Callers :
        /\ pc[c] = "raised"
        /\ dispatches[c][1].error # dispatches[c][3].error
        /\ dispatches[c][2].error # dispatches[c][3].error
        /\ raised[c] = dispatches[c][3].error

\* ---------------------------------------------------------------------------
\* Overlapping calls
\* ---------------------------------------------------------------------------

\* The transport calls made with key k, by any caller, and the failed ones.
DispatchesWith(k) ==
    { ci \in Callers \X (1..max_retries) :
          /\ ci[2] <= Len(dispatches[ci[1]])
          /\ dispatches[ci[1]][ci[2]].key = k }

FailuresWith(k) ==
    { ci \in DispatchesWith(k) :
          /\ dispatches[ci[1]][ci[2]].done_at # NoTime
          /\ dispatches[ci[1]][ci[2]].error # NoError }

\* Caller c has loaded a counter of its key and not yet stored the sum.
InsideUpdate(c) == pc[c] \in {"store_requests", "store_errors"}

\* Once every call has ended, each key's error count is the number of failed
\* transport calls made with it and its request count the number of usages
\* recorded for it.
CountsAddUp ==
    (\A c \in Callers : pc[c] \in {"returned", "raised"})
        => \A k \in KeySet :
               /\ key_usage_stats[k].errors = Cardinality(FailuresWith(k))
               /\ key_usage_stats[k].requests = Cardinality(DispatchesWith(k))

\* C19: with overlapping calls, two callers are never both between the load
\* and the store of the same counter of the same key, and no counter update
\* is lost: the counts add up once every call has ended.
C19_Serialized ==
    /\ \A c, d \in Callers :
           (c # d /\ InsideUpdate(c) /\ pc[c] = pc[d]) => api_key[c] # api_key[d]
    /\ CountsAddUp

\* C20: while a caller waits for its transport call or sleeps before a
\* retry, every other caller can take the step it is at: select a key,
\* record the usage and dispatch, receive the response or the error of its
\* own transport call, and record its failure.
C20_NonBlocking ==
    \A c, d \in Callers :
        (c # d /\ pc[c] \in {"inflight", "sleep"}) =>
            /\ pc[d] = "select" => ENABLED SelectKey(d)
            /\ pc[d] = "load_requests" => ENABLED LoadRequests(d)
            /\ pc[d] = "store_requests" => ENABLED StoreRequests(d)
            /\ pc[d] = "inflight" =>
                   /\ ENABLED Succeed(d)
                   /\ ENABLED (\E text \in RaceTexts : LoadErrors(d, text))
            /\ pc[d] = "store_errors" => ENABLED StoreErrors(d, 0)

\* Two transport calls are in flight at once: the second one of caller a,
\* sent after its backoff sleep, and the first one of caller b.
C20_Witness ==
    /\ pc["a"] = "inflight"
    /\ pc["b"] = "inflight"
    /\ Len(dispatches["a"]) = 2
    /\ Len(dispatches["b"]) = 1

\* ---------------------------------------------------------------------------
\* Abandoned calls
\* ---------------------------------------------------------------------------

\* C21: once the caller has abandoned a call that has made an attempt, no
\* step adds a transport call to it (the one in flight at that time may
\* still complete).
C21_NoAttemptAfterAbandon ==
    [][\A c \in Callers :
          (abandoned[c] /\ Len(dispatches[c]) >= 1)
              => Len(dispatches'[c]) = Len(dispatches[c])]_vars

\* ---------------------------------------------------------------------------
\* Round-robin scan
\* ---------------------------------------------------------------------------

\* The key j positions after the rotation pointer, in cyclic pool order.
CyclicKey(j) == api_keys[((current_key_index + j) % Len(api_keys)) + 1]

\* Offsets from the pointer, below the pool size, at which a usable key sits.
UsableOffsets == { j \in 0..(Len(api_keys) - 1) : IsUsable(CyclicKey(j), now) }

\* C22: when some key is usable, the selection returns the usable key
\* nearest after the pointer in cyclic order (so at most pool-size
\* candidates are examined) and leaves the pointer on it; when none is
\* usable the selection leaves the pointer where it was.
C22_FirstUsable ==
    LET sel == GetNextAvailableKey IN
    IF UsableOffsets # {}
    THEN LET j == CHOOSE j \in UsableOffsets : \A i \in UsableOffsets : j <= i IN
         /\ sel.key = CyclicKey(j)
         /\ sel.idx = (current_key_index + j) % Len(api_keys)
         /\ api_keys[sel.idx + 1] = sel.key
    ELSE sel.idx = current_key_index

\* The pointer is on the second key, which is not usable, while the first
\* is: the scan wraps round and returns the first key, pointer on it.
C22_Witness ==
    /\ Len(api_keys) = 2
    /\ current_key_index = 1
    /\ ~IsUsable(api_keys[2], now)
    /\ IsUsable(api_keys[1], now)
    /\ GetNextAvailableKey.key = api_keys[1]
    /\ GetNextAvailableKey.idx = 0

\* ---------------------------------------------------------------------------
\* Rotation on success
\* ---------------------------------------------------------------------------

\* C23: the step in which a transport call returns a response moves the
\* pointer one position on, modulo the pool size; the steps that handle a
\* failed transport call do not move it; and when one call has returned on
\* its first attempt, a call that then makes its first selection in a pool
\* of two or more keys, all usable, gets a key other than the one the first
\* call used.
C23_Rotation ==
    [][ /\ \A c \in Callers :
               (pc[c] = "inflight" /\ pc'[c] = "returned")
                   => current_key_index'
                          = (current_key_index + 1) % Len(api_keys)
        /\ \A c \in Callers :
               ( /\ pc[c] \in {"inflight", "store_errors"}
                 /\ pc'[c] \in {"store_errors", "sleep", "raised"}
                 /\ pc'[c] # pc[c] )
                   => current_key_index' = current_key_index
        /\ \A c, d \in Callers :
               ( /\ c # d
                 /\ Len(api_keys) >= 2
                 /\ \A k \in KeySet : IsUsable(k, now)
                 /\ pc[d] = "returned"
                 /\ Len(dispatches[d]) = 1
                 /\ pc[c] = "select"
                 /\ attempt[c] = 0
                 /\ pc'[c] # "select" )
                   => api_key'[c] # dispatches[d][1].key ]_vars

\* Two calls, one after the other, each returned on its first attempt: the
\* first used the first key, the second the second key, and the pointer has
\* gone round the pool of two.
C23_Witness ==
    /\ Len(api_keys) = 2
    /\ pc["a"] = "returned"
    /\ pc["b"] = "returned"
    /\ Len(dispatches["a"]) = 1
    /\ Len(dispatches["b"]) = 1
    /\ dispatches["a"][1].key = api_keys[1]
    /\ dispatches["b"][1].key = api_keys[2]
    /\ current_key_index = 0

\* ---------------------------------------------------------------------------
\* Backoff
\* ---------------------------------------------------------------------------

\* C24: within one call, the step that handles the failure of attempt n
\* starts a delay exactly when n + 1 < 3; the delay is 2 to 3 s after
\* attempt 0 and 4 to 5 s after attempt 1; the sleep does not end before the
\* delay has elapsed, so attempt n + 1 selects its key no earlier than the
\* shortest delay after the failure; the third failure raises at once and a
\* response returns at once, neither with a delay.
C24_Backoff ==
    [][\A c \in Solo :
          /\ (pc[c] = "inflight" /\ pc'[c] # "inflight") =>
                 IF dispatches'[c][Len(dispatches'[c])].error = NoError
                 THEN pc'[c] = "returned" /\ wake_at'[c] = NoTime /\ now' = now
                 ELSE /\ pc'[c] = "sleep" <=> attempt[c] + 1 < max_retries
                      /\ pc'[c] = "sleep" =>
                             wake_at'[c] - now \in
                                 (IF attempt[c] = 0 THEN 2..3 ELSE 4..5)
                      /\ pc'[c] # "sleep" =>
                             /\ pc'[c] = "raised"
                             /\ wake_at'[c] = NoTime
                             /\ now' = now
          /\ (pc[c] = "sleep" /\ pc'[c] # "sleep") => now >= wake_at[c]
          /\ (pc[c] = "select" /\ pc'[c] # "select" /\ attempt[c] >= 1) =>
                 now >= dispatches[c][attempt[c]].done_at
                            + (IF attempt[c] = 1 THEN 2 ELSE 4) ]_vars

\* A call that failed three times: the second transport call was sent 3 s
\* after the first failed, the third 4 s after the second failed, and the
\* error was raised at the time of the third failure.
C24_Witness ==
    /\ pc["a"] = "raised"
    /\ Len(dispatches["a"]) = 3
    /\ dispatches["a"][2].sent_at = dispatches["a"][1].done_at + 3
    /\ dispatches["a"][3].sent_at = dispatches["a"][2].done_at + 4
    /\ now = dispatches["a"][3].done_at

\* ---------------------------------------------------------------------------
\* Termination of a call
\* ---------------------------------------------------------------------------

\* The transport calls of caller c so far carry the attempt numbers 0, 1, 2
\* in order, there are at most three, and only the last one may have
\* returned a response.
AttemptsInOrder(c) ==
    /\ Len(dispatches[c]) <= max_retries
    /\ \A i \in 1..Len(dispatches[c]) :
           /\ dispatches[c][i].attempt = i - 1
           /\ i < Len(dispatches[c]) =>
                  /\ dispatches[c][i].done_at # NoTime
                  /\ dispatches[c][i].error # NoError
    /\ pc[c] \in {"returned", "raised"} => Len(dispatches[c]) >= 1

\* C25: when every transport call comes back, a call that has started ends,
\* with a response or with the error raised; on the way it makes at most
\* three transport calls, numbered 0, 1, 2 in order without a gap or a
\* repeat, and none after one that returned a response.
C25_Terminates ==
    /\ \A c \in Solo :
           (pc[c] = "select") ~> (pc[c] \in {"returned", "raised"})
    /\ [](\A c \in Solo : AttemptsInOrder(c))

\* A call that went through the three attempts and returned on the third.
C25_Witness ==
    /\ pc["a"] = "returned"
    /\ Len(dispatches["a"]) = 3
    /\ dispatches["a"][3].attempt = 2
    /\ dispatches["a"][3].error = NoError

\* ---------------------------------------------------------------------------
\* Error classification
\* ---------------------------------------------------------------------------

\* The signals of each kind that occur in an error text.
CreditSignals(text) == text \cap {"402", "payment required", "credit"}

RateSignals(text) == text \cap {"429", "rate limit"}

\* C26: the step that handles a failed transport call applies exactly one
\* class to the key: with a credit signal in the error, rate-limit signal or
\* not, the credits flag and the 1800 s cooldown, the rate-limit flag being
\* left alone; with a rate-limit signal and no credit signal, the rate-limit
\* flag and the 60 s cooldown, the credits flag being left alone; with
\* neither, the 30 s cooldown and no flag change.
C26_Classification ==
    [][\A c \in Solo :
          (pc[c] = "inflight" /\ pc'[c] \in {"sleep", "raised"}) =>
              LET k == api_key[c]
                  text == dispatches'[c][Len(dispatches'[c])].error
                  old == key_usage_stats[k]
                  new == key_usage_stats'[k]
              IN  IF CreditSignals(text) # {}
                  THEN /\ new.credits_exhausted
                       /\ new.rate_limited = old.rate_limited
                       /\ key_cooldowns'[k] = now + 1800
                  ELSE IF RateSignals(text) # {}
                  THEN /\ new.rate_limited
                       /\ new.credits_exhausted = old.credits_exhausted
                       /\ key_cooldowns'[k] = now + 60
                  ELSE /\ new.rate_limited = old.rate_limited
                       /\ new.credits_exhausted = old.credits_exhausted
                       /\ key_cooldowns'[k] = now + 30 ]_vars

\* The first transport call failed with an error carrying both a credit and
\* a rate-limit signal: its key has the credits flag and the 1800 s
\* cooldown, and no rate-limit flag.
C26_Witness ==
    /\ resets = 0
    /\ Len(dispatches["a"]) = 1
    /\ pc["a"] = "sleep"
    /\ CreditSignals(dispatches["a"][1].error) # {}
    /\ RateSignals(dispatches["a"][1].error) # {}
    /\ key_usage_stats[dispatches["a"][1].key].credits_exhausted
    /\ ~key_usage_stats[dispatches["a"][1].key].rate_limited
    /\ key_cooldowns[dispatches["a"][1].key] = dispatches["a"][1].done_at + 1800

\* ---------------------------------------------------------------------------
\* The caller's request is left alone
\* ---------------------------------------------------------------------------

\* C27: no step changes the kwargs the caller passed, and the request of
\* attempt n is what the adjustment gives for those kwargs and n, whatever
\* the request of the attempt before was.
C27_OriginalKept ==
    [][\A c \in Solo :
          /\ kwargs'[c] = kwargs[c]
          /\ (pc[c] = "adjust" /\ pc'[c] = "adjusted") =>
                 adj_kwargs'[c] = MaybeAdjustRequest(kwargs[c], attempt[c]) ]_vars

\* Third attempt of a request for the first chain model with a budget above
\* the first cap: the request sent is one rung down with 1024 tokens, and
\* the caller's kwargs are as passed.
C27_Witness ==
    /\ pc["a"] = "adjusted"
    /\ attempt["a"] = 2
    /\ Has(kwargs["a"], "model")
    /\ Has(kwargs["a"], "max_tokens")
    /\ kwargs["a"].model = model_fallback_chain[1]
    /\ kwargs["a"].max_tokens > Cap1
    /\ adj_kwargs["a"].model = model_fallback_chain[2]
    /\ adj_kwargs["a"].max_tokens = Cap2

\* ---------------------------------------------------------------------------
\* Model of successive attempts
\* ---------------------------------------------------------------------------

\* C28: in a call whose requested model is in the fallback chain, the model
\* sent with each attempt after the first is the chain entry right after the
\* model sent with the attempt before, as long as that model has a
\* successor in the chain.
C28_OneRungPerAttempt ==
    \A c \in Solo :
        (Has(kwargs[c], "model") /\ kwargs[c].model \in ChainModels) =>
            \A i \in 1..(Len(dispatches[c]) - 1) :
                LET idx == ChainIndex(dispatches[c][i].request.model) IN
                idx + 1 <= Len(model_fallback_chain) =>
                    dispatches[c][i + 1].request.model
                        = model_fallback_chain[idx + 1]

\* ---------------------------------------------------------------------------
\* Flags
\* ---------------------------------------------------------------------------

\* C29: a flag that is set is cleared only in a step of reset_key_status,
\* whatever else happens (selections, transport calls that fail or return,
\* snapshots, time passing, cooldowns expiring); and whenever the selection
\* returns a flagged key, no key of the pool is usable, so the key comes
\* from the least-error fallback and not from the scan.
C29_FlagsSticky ==
    /\ [][\A k \in KeySet :
              ( \/ (key_usage_stats[k].credits_exhausted
                       /\ ~key_usage_stats'[k].credits_exhausted)
                \/ (key_usage_stats[k].rate_limited
                       /\ ~key_usage_stats'[k].rate_limited) )
              => resets' = resets + 1]_vars
    /\ [](~FlagsClear(key_usage_stats, GetNextAvailableKey.key)
              => \A k \in KeySet : ~IsUsable(k, now))

\* With no reset made, a key flagged for lack of credits was selected again
\* by the fallback, obtained a response after its cooldown had expired, and
\* is still flagged when a snapshot is taken.
C29_Witness ==
    /\ resets = 0
    /\ pc["a"] = "returned"
    /\ key_usage_stats[response["a"]].credits_exhausted
    /\ Has(key_cooldowns, response["a"])
    /\ now >= key_cooldowns[response["a"]]
    /\ status # NoStatus

\* ---------------------------------------------------------------------------
\* Counters
\* ---------------------------------------------------------------------------

\* C30: with calls, resets and snapshots that do not overlap, every key has
\* at most as many errors as requests; hence a snapshot reports at most as
\* many errors as requests in total and an error rate of at most 100%.
C30_ErrorsWithinRequests ==
    /\ \A k \in KeySet :
           key_usage_stats[k].errors <= key_usage_stats[k].requests
    /\ status # NoStatus =>
           /\ status.summary.total_errors <= status.summary.total_requests
           /\ status.summary.error_rate <= 100
           /\ \A i \in 1..Len(status.keys_status) :
                  status.keys_status[i].errors <= status.keys_status[i].requests

\* A snapshot taken after a call whose three attempts all failed: the errors
\* equal the requests and the error rate is 100%.
C30_Witness ==
    /\ status # NoStatus
    /\ pc["a"] = "raised"
    /\ status.summary.total_errors = max_retries
    /\ status.summary.total_requests = max_retries
    /\ status.summary.error_rate = 100

\* ---------------------------------------------------------------------------
\* First attempt
\* ---------------------------------------------------------------------------

CooldownStands(sent) ==
    /\ Has(key_cooldowns, sent.key)
    /\ key_cooldowns[sent.key] = sent.done_at + CooldownFor(Classify(sent.error))

\* C32: in a call running alone, when attempt n failed with key K and attempt
\* n + 1 selects its key while the cooldown of that failure stands: if a key
\* other than K is usable, the key selected is not K; and if the key
\* selected is K again, no key of the pool is usable and no key has fewer
\* errors than K.
C32_NextKeyDiffers ==
    [][\A c \in Solo :
          (pc[c] = "select" /\ pc'[c] = "inflight" /\ attempt[c] >= 1) =>
              LET sent == dispatches[c][attempt[c]]
                  K == sent.key
              IN  CooldownStands(sent) =>
                      /\ (\E k \in KeySet \ {K} : IsUsable(k, now))
                             => api_key'[c] # K
                      /\ api_key'[c] = K =>
                             /\ \A k \in KeySet : ~IsUsable(k, now)
                             /\ \A k \in KeySet :
                                    key_usage_stats[K].errors
                                        <= key_usage_stats[k].errors ]_vars

\* The first transport call of a call failed, and the second one was sent
\* with another key while the cooldown of the first key stood.
C32_Witness ==
    /\ Len(dispatches["a"]) >= 2
    /\ dispatches["a"][1].error # NoError
    /\ dispatches["a"][2].key # dispatches["a"][1].key
    /\ pc["a"] = "inflight"
    /\ attempt["a"] = 1
    /\ CooldownStands(dispatches["a"][1])

====
